---- MODULE Spec2Model ----
(***************************************************************************)
(* Client-side session / query-cache coordination of the frontend:         *)
(*   - the session store (utils/auth.ts, and the older localStorage        *)
(*     access in the earlier revision of useAuth),                         *)
(*   - the authenticated query wrapper useCustomQuery,                     *)
(*   - the auth controller useAuth (login, sign-up, logout) and the        *)
(*     current-user read useCurrentUser.                                   *)
(*                                                                         *)
(* The source holds two revisions of the controller.  The variable rev     *)
(* fixes, for a whole behaviour, which one the application is built from:  *)
(*   "utils"  : hooks/useAuth.ts + utils/auth.ts + useCurrentUser.ts:14-33 *)
(*   "legacy" : the earlier useAuth (exports isLoggedIn, reads             *)
(*              "access_token") + useCurrentUser.ts:80-108                 *)
(* useCustomQuery is the same file in both; it imports isLoggedIn from     *)
(* "./useAuth.ts", which only the earlier useAuth exports.  In the         *)
(* scenarios of the query cache the wrapper of revision "utils" is bound   *)
(* to the isLoggedIn of utils/auth.ts, as hooks/useAuth.ts is; SpecStore   *)
(* applies the session functions of both modules to one localStorage.      *)
(*                                                                         *)
(* SpecItems is the items hook (useItems, prefetchItems) on its own: the   *)
(* options of a call, the parameters and the query key resolved from them, *)
(* and the argument each read is sent with.                                *)
(*                                                                         *)
(* The query cache is the library's (@tanstack/react-query v5); the model  *)
(* follows its behaviour at each call site of the source: invalidateQueries*)
(* marks matching entries invalidated and refetches those with an enabled  *)
(* observer, removeQueries drops the entry and silently cancels its        *)
(* request, an observer's enabled option is the value computed at its last *)
(* render, and the retry option is consulted with the failure count before *)
(* the failing attempt is counted.                                         *)
(*                                                                         *)
(* Scheduling is the browser's event loop: an action is one macrotask      *)
(* (render with its effects, a network completion, a user event); promise  *)
(* continuations are microtasks, kept in the FIFO queue micro, and no      *)
(* macrotask starts while micro is non-empty.                              *)
(***************************************************************************)
EXTENDS Integers, Sequences, FiniteSets, TLC

\* ------------------------------------------------------------------ bounds
MaxSession == 2     \* tokens the server issues in one behaviour
MaxChains == 2      \* 401 reactions in flight at once
MaxFaults == 5      \* server errors (status 500) in one behaviour
MaxPage == 3        \* pages of the items table
MaxSkip == 2        \* largest explicit skip
MaxCalls == 2       \* calls of useItems / prefetchItems in one behaviour

\* --------------------------------------------------------------- constants
UNAUTHORIZED == 401
SERVER_ERROR == 500
RetryLimit == 3     \* retryCount <= 3 in the retry option
DefaultRetry == 3   \* the library's default retry count

Revisions == {"utils", "legacy"}
StorageKeys == {"authState", "access_token"}
Comps == {"c1", "c2"}

\* query keys: usersKeys.current(), and the keys components hand to useCustomQuery
UsersCurrent == "users/current"
UsersPage == "users/page"
Items == "items"
WrapperKeys == {Items, UsersPage}
Keys == {UsersCurrent} \cup WrapperKeys

VARIABLES
  rev,        \* which revision of the controller the build holds
  wkey,       \* wkey[c]: the query key component c hands to useCustomQuery
  storage,    \* localStorage: storage[key] is a token (1..MaxSession) or 0 (no item)
  issued,     \* number of tokens the server has issued
  valid,      \* tokens the server still accepts
  cache,      \* the query cache: one entry per key
  comp,       \* per component: mounted, and the enabled option of its last render
  awaiting,   \* awaiting[k]: 401 reactions waiting for the refetch of k to settle
  micro,      \* FIFO queue of promise continuations
  lo,         \* lo[c]: logout() calls made by c's 401 reactions in this session
  op,         \* the handler that ran last
  net,        \* keys for which the last step sent a network request
  cancelled,  \* keys whose request in flight the last step cancelled
  nav,        \* navigations issued by the last step
  rinv,       \* router.invalidate() calls of the last step
  calls,      \* who called logout() in the last step
  scn,        \* the scenario: the components on the page, the tokens the server issues
  faults,     \* server errors (status 500) the server may still answer with
  ended,      \* tokens whose session a logout() has ended
  seen,       \* isLoggedIn() at each navigation or router refresh of the last step
  errorField, \* the error field of the controller (useState of useAuth: error)
  toasts,     \* notifications the last step handed to showToast
  ret,        \* the last call of a session-store function: its argument and result
  icalls,     \* the calls of useItems' fetch and of prefetchItems made so far
  ireq,       \* the reads of items in flight: the query key and the argument of readItems
  icache      \* the cached items: the query key and the argument its value was read with

vars == <<rev, wkey, storage, issued, valid, cache, comp, awaiting, micro,
          lo, op, net, cancelled, nav, rinv, calls, scn, faults, ended, seen, errorField,
          toasts, ret,
          icalls, ireq, icache>>

\* ----------------------------------------------------------- session store
NoToken == 0        \* null: no item under the key
EmptyString == -1   \* the token "": a string, not null

\* token strings: the empty string and the tokens the server issues
Tokens == {EmptyString} \cup (1..MaxSession)

\* utils/auth.ts
getLocalAuthState(s) == s["authState"]

updateLocalAuthState(s, newState) ==
  IF newState = NoToken
  THEN [s EXCEPT !["authState"] = NoToken]
  ELSE [s EXCEPT !["authState"] = newState]

getAuthToken(s) == getLocalAuthState(s)

\* mutant of isLoggedInUtils: the token is tested for truthiness, not against null
isLoggedInUtils_Truthy(s) == getAuthToken(s) \notin {NoToken, EmptyString}

isLoggedInUtils(s) == getAuthToken(s) # NoToken

\* the earlier useAuth: const isLoggedIn = () => localStorage.getItem("access_token") !== null
isLoggedInLegacy(s) == s["access_token"] # NoToken

\* the earlier useAuth: localStorage.setItem("access_token", data.access_token)
setAccessToken(s, t) == [s EXCEPT !["access_token"] = t]

\* the earlier useAuth: localStorage.removeItem("access_token")
removeAccessToken(s) == [s EXCEPT !["access_token"] = NoToken]

\* isLoggedIn as the hooks of revision r see it
isLoggedIn(r, s) == IF r = "utils" THEN isLoggedInUtils(s) ELSE isLoggedInLegacy(s)

\* the bearer token a request carries: the stored token, read when the request is sent
ReqToken(r, s) == IF r = "utils" THEN getAuthToken(s) ELSE s["access_token"]

\* a call of a session-store function: the argument it got, the token or the
\* boolean it returned (NoToken and FALSE where it has none)
Call(arg, tok, auth) == [arg |-> arg, tok |-> tok, auth |-> auth]
NoCall == Call(NoToken, NoToken, FALSE)

\* ------------------------------------------------------------------- items
PER_PAGE == 5       \* const PER_PAGE = 5 of the items route
None == -1          \* undefined: the option is not given

Limits == {1, PER_PAGE}

\* an options object: limit, and page and skip where given
Options(limit, page, skip) == [limit |-> limit, page |-> page, skip |-> skip]

\* the QueryOptions a caller can hand to useItems: limit > 0, page >= 1, skip >= 0,
\* at least one of page and skip
QueryOptions ==
  {Options(l, pg, sk) : l \in Limits, pg \in {None} \cup (1..MaxPage),
                        sk \in {None} \cup (0..MaxSkip)}
    \ {Options(l, None, None) : l \in Limits}

\* mutant of getItemsQueryParams: skip || (page - 1) * limit
getItemsQueryParams_Falsy(o) ==
  Options(o.limit, None,
          IF o.skip \in {None, 0} THEN (o.page - 1) * o.limit ELSE o.skip)

\* return { skip: skip ?? (page - 1) * limit, limit }
getItemsQueryParams(o) ==
  Options(o.limit, None, IF o.skip # None THEN o.skip ELSE (o.page - 1) * o.limit)

\* itemKeys.query: [...itemKeys.all, options]
itemKeysQuery(options) == <<Items, options>>

\* mutant of useItemsKey: the key is built from the options as given
useItemsKey_FromOptions(queryKey, queryOptions) ==
  IF queryKey # None THEN queryKey ELSE itemKeysQuery(queryOptions)

\* useItems: const queryKey = _queryKey ?? itemKeys.query(queryParams)
useItemsKey(queryKey, queryOptions) ==
  IF queryKey # None THEN queryKey ELSE itemKeysQuery(getItemsQueryParams(queryOptions))

\* fetchItems({}): useQuery({ queryFn: () => readItems(__queryOptions), queryKey })
\* (the items route hands no queryKey)
fetchItems(queryOptions) ==
  [by |-> "fetch", opts |-> queryOptions,
   params |-> getItemsQueryParams(queryOptions),
   key |-> useItemsKey(None, queryOptions),
   sent |-> queryOptions]

\* prefetchItems({ page, limit }): prefetchQuery({ queryKey: itemKeys.query(_queryParams),
\* queryFn: () => readItems(_queryParams) })
prefetchItems(page, limit) ==
  LET queryParams == getItemsQueryParams(Options(limit, page, None)) IN
  [by |-> "prefetch", opts |-> Options(limit, page, None),
   params |-> queryParams,
   key |-> itemKeysQuery(queryParams),
   sent |-> queryParams]

\* the query of call.key is fetched: a read in flight for the key is shared,
\* otherwise the call's queryFn sends one
SendRead(reqs, call) ==
  IF \E r \in reqs : r.key = call.key THEN reqs
  ELSE reqs \cup {[key |-> call.key, sent |-> call.sent]}

\* ------------------------------------------------------------- query cache
NoEntry == [present |-> FALSE, data |-> 0, err |-> 0, inv |-> FALSE,
            fetching |-> FALSE, fails |-> 0, tok |-> NoToken]

NewEntry == [NoEntry EXCEPT !.present = TRUE]

\* the keys component c observes: the current user (through useAuth) and its own read
Observed(wk, c) == {UsersCurrent, wk[c]}

\* a query is active when some mounted observer of it has enabled !== false
Active(w, k) ==
  \E c \in Comps : w.comp[c].mounted /\ w.comp[c].enabled /\ k \in Observed(w.wkey, c)

RemoveTask(k, c) == [t |-> "remove", k |-> k, c |-> c]
LogoutTask(k, c) == [t |-> "logout", k |-> k, c |-> c]

RECURSIVE TasksOf(_, _)
TasksOf(k, cs) ==
  IF cs = <<>> THEN <<>> ELSE <<RemoveTask(k, Head(cs))>> \o TasksOf(k, Tail(cs))

\* the promise of the request of k settles (or is cancelled): every reaction
\* awaiting it continues with its .then(() => remove())
Settle(w, k) ==
  [w EXCEPT !.micro = @ \o TasksOf(k, w.awaiting[k]), !.awaiting[k] = <<>>]

\* Query.fetch: a request is sent; the previous error is kept only beside data
StartFetch(w, k) ==
  LET e == w.cache[k] IN
  [w EXCEPT !.cache[k] = [e EXCEPT !.fetching = TRUE, !.fails = 0,
                                   !.tok = ReqToken(w.rev, w.storage),
                                   !.err = IF e.data = 0 THEN 0 ELSE e.err],
            !.net = @ \cup {k}]

\* queryClient.invalidateQueries({ queryKey: k }) for one matching entry
InvalidateOne(w, k) ==
  IF ~w.cache[k].present THEN w
  ELSE LET w1 == [w EXCEPT !.cache[k].inv = TRUE] IN
       IF ~Active(w1, k) THEN w1
       ELSE IF ~w1.cache[k].fetching THEN StartFetch(w1, k)
       ELSE IF w1.cache[k].data = 0 THEN w1          \* the request in flight is reused
       ELSE StartFetch(Settle([w1 EXCEPT !.cancelled = @ \cup {k}], k), k)
                                                     \* cancelRefetch: cancel, send again

\* queryClient.invalidateQueries({ queryKey: ["users"] }): every key under "users"
InvalidateUsers(w) == InvalidateOne(InvalidateOne(w, UsersCurrent), UsersPage)

\* mutant of RemoveOne: the entry is dropped but its request is left running
RemoveOne_KeepRequest(w, k) ==
  IF ~w.cache[k].present THEN w
  ELSE [w EXCEPT !.cache[k] = [NoEntry EXCEPT !.fetching = w.cache[k].fetching,
                                              !.tok = w.cache[k].tok]]

\* mutant of RemoveOne: the entry is only marked stale, as invalidateQueries would
RemoveOne_OnlyStale(w, k) ==
  IF ~w.cache[k].present THEN w ELSE [w EXCEPT !.cache[k].inv = TRUE]

\* queryClient.removeQueries({ queryKey: k }): the entry is dropped, its request cancelled
RemoveOne(w, k) ==
  IF ~w.cache[k].present THEN w
  ELSE LET w1 == IF w.cache[k].fetching
                 THEN Settle([w EXCEPT !.cancelled = @ \cup {k}], k)
                 ELSE w
       IN [w1 EXCEPT !.cache[k] = NoEntry]

\* ------------------------------------------------------------------ router
\* navigate({ to }): the router is told to go to a route; the routes it renders see
\* the session store as it is at this moment
navigate(w, to) ==
  [w EXCEPT !.nav = Append(@, to), !.seen = Append(@, isLoggedIn(w.rev, w.storage))]

\* router.invalidate(): the router reloads the current route
routerInvalidate(w) ==
  [w EXCEPT !.rinv = @ + 1, !.seen = Append(@, isLoggedIn(w.rev, w.storage))]

\* ------------------------------------------------------------------ logout
\* hooks/useAuth.ts: updateLocalAuthState(null); invalidateQueries(usersKeys.current());
\* navigate({ to: "/login" })
logoutUtils(w, who) ==
  LET w1 == [w EXCEPT !.storage = updateLocalAuthState(@, NoToken)]
      w2 == InvalidateOne(w1, UsersCurrent)
  IN [navigate(w2, "/login") EXCEPT !.calls = Append(@, who)]

\* earlier useAuth: localStorage.removeItem("access_token"); removeUserQuery();
\* router.invalidate()
logoutLegacy(w, who) ==
  LET w1 == [w EXCEPT !.storage = removeAccessToken(@)]
      w2 == RemoveOne(w1, UsersCurrent)
  IN [routerInvalidate(w2) EXCEPT !.calls = Append(@, who)]

logout(w, who) == IF w.rev = "utils" THEN logoutUtils(w, who) ELSE logoutLegacy(w, who)

\* ------------------------------------------------------------------- login
\* hooks/useAuth.ts: mutationFn login stores the token of the response, then onSuccess
\* navigates to "/"
loginUtils(w, t) ==
  navigate([w EXCEPT !.storage = updateLocalAuthState(@, t)], "/")

\* earlier useAuth: onSuccess stores the token, then router.invalidate()
loginLegacy(w, t) ==
  routerInvalidate([w EXCEPT !.storage = setAccessToken(@, t)])

\* mutant of loginSuccess: the router is told before the token is stored
loginSuccess_RefreshFirst(w, t) ==
  IF w.rev = "utils"
  THEN [navigate(w, "/") EXCEPT !.storage = updateLocalAuthState(@, t)]
  ELSE [routerInvalidate(w) EXCEPT !.storage = setAccessToken(@, t)]

loginSuccess(w, t) == IF w.rev = "utils" THEN loginUtils(w, t) ELSE loginLegacy(w, t)

\* --------------------------------------------------------- mutation errors
\* values of errDetail, of the error field and of a notification's description
Null == [kind |-> "null", text |-> ""]
Undefined == [kind |-> "undefined", text |-> ""]
Str(t) == [kind |-> "string", text |-> t]
ArrayDetail == [kind |-> "array", text |-> ""]

\* what a mutation's onError receives: an ApiError with the body of the response
\* (detail a string, an array of sub-errors, or missing), or an AxiosError of the
\* transport
ApiError(detail) == [axios |-> FALSE, message |-> "Bad Request", detail |-> detail]
AxiosError == [axios |-> TRUE, message |-> "Network Error", detail |-> Undefined]

Errors ==
  {ApiError(Str("Incorrect email or password")), ApiError(ArrayDetail),
   ApiError(Undefined), AxiosError}

\* let errDetail = (err.body as any)?.detail; if (err instanceof AxiosError) errDetail = err.message
errDetailOf(err) == IF err.axios THEN Str(err.message) ELSE err.detail

setError(w, value) == [w EXCEPT !.error = value]

showToast(w, title, description, status) ==
  [w EXCEPT !.toasts = Append(@, [title |-> title, description |-> description,
                                  status |-> status])]

\* loginMutation.onError: an array detail becomes "Something went wrong"
loginOnError(w, err) ==
  LET errDetail == errDetailOf(err) IN
  setError(w, IF errDetail.kind = "array" THEN Str("Something went wrong") ELSE errDetail)

\* signUpMutation.onSuccess
signUpOnSuccess(w) ==
  showToast(navigate(w, "/login"), "Account created.",
            Str("Your account has been created successfully."), "success")

\* signUpMutation.onError
signUpOnError(w, err) ==
  showToast(w, "Something went wrong.", errDetailOf(err), "error")

\* mutant of signUpOnSettled: only the current-user key is invalidated
signUpOnSettled_CurrentOnly(w) == InvalidateOne(w, UsersCurrent)

\* signUpMutation.onSettled
signUpOnSettled(w) == InvalidateUsers(w)

\* ------------------------------------------------------------ retry policy
\* retry: (retryCount, error) => error.status === 401 ? false : retryCount <= 3
retry(retryCount, status) ==
  IF status = UNAUTHORIZED THEN FALSE ELSE retryCount <= RetryLimit

\* the retry decision for key k after a failure, failureCount failures before it:
\* useCurrentUser.ts:14-33 sets no retry option (the library retries while
\* failureCount < 3); useCurrentUser.ts:80-108 and useCustomQuery set the predicate
ShouldRetry(r, k, failureCount, status) ==
  IF k = UsersCurrent /\ r = "utils"
  THEN failureCount < DefaultRetry
  ELSE retry(failureCount, status)

\* ------------------------------------------------------------------ render
\* useQuery of an observer of k at a render of a component: the entry is built when
\* missing; an enabled observer fetches when it mounts, when it was disabled before,
\* or when the entry is new
Subscribe(w, k, en, fresh) ==
  LET isNew == ~w.cache[k].present
      w1 == IF isNew THEN [w EXCEPT !.cache[k] = NewEntry] ELSE w
  IN IF en /\ (fresh \/ isNew) /\ ~w1.cache[k].fetching THEN StartFetch(w1, k) ELSE w1

\* earlier useAuth, useEffect: if (userError?.status === 401 && isLoggedIn()) logout()
AuthEffect(w) ==
  IF w.rev = "legacy" /\ w.cache[UsersCurrent].err = UNAUTHORIZED
     /\ isLoggedIn(w.rev, w.storage)
  THEN logoutLegacy(w, "auth")
  ELSE w

\* the branch the effect of useCustomQuery takes for the error of this render
EffectBranch(w, error) ==
  IF error = UNAUTHORIZED /\ isLoggedIn(w.rev, w.storage) THEN "react401"
  ELSE IF error = UNAUTHORIZED /\ ~isLoggedIn(w.rev, w.storage) THEN "cleanup401"
  ELSE "render"

\* mutant of QueryEffect: the 401 branch also clears the stored token itself
QueryEffect_Deauth(w, c, error) ==
  LET k == w.wkey[c]
      b == EffectBranch(w, error)
      wb == [w EXCEPT !.branch = b]
  IN CASE b = "react401" ->
            LET w1 == InvalidateOne(wb, k) IN
            IF w1.cache[k].present /\ Active(w1, k)
            THEN [w1 EXCEPT !.awaiting[k] = Append(@, c),
                            !.storage = [s \in StorageKeys |-> NoToken]]
            ELSE [w1 EXCEPT !.micro = Append(@, RemoveTask(k, c)),
                            !.storage = [s \in StorageKeys |-> NoToken]]
       [] b = "cleanup401" -> RemoveOne(wb, k)
       [] OTHER -> wb

\* useCustomQuery, useEffect: invalidate().then(() => remove()).then(logout), or remove()
QueryEffect(w, c, error) ==
  LET k == w.wkey[c]
      b == EffectBranch(w, error)
      wb == [w EXCEPT !.branch = b]
  IN CASE b = "react401" ->
            LET w1 == InvalidateOne(wb, k) IN
            IF w1.cache[k].present /\ Active(w1, k)
            THEN [w1 EXCEPT !.awaiting[k] = Append(@, c)]
            ELSE [w1 EXCEPT !.micro = Append(@, RemoveTask(k, c))]
       [] b = "cleanup401" -> RemoveOne(wb, k)
       [] OTHER -> wb

\* one render of component c with its effects
RenderComp(w, c) ==
  LET en == isLoggedIn(w.rev, w.storage)
      fresh == ~w.comp[c].mounted \/ ~w.comp[c].enabled
      w1 == [w EXCEPT !.comp[c] = [mounted |-> TRUE, enabled |-> en]]
      w2 == Subscribe(w1, UsersCurrent, en, fresh)
      w3 == Subscribe(w2, w.wkey[c], en, fresh)
      error == w3.cache[w.wkey[c]].err
      w4 == AuthEffect(w3)
  IN QueryEffect(w4, c, error)

\* ------------------------------------------------------------------- state
\* the mutable state as one record, with the step-local history cleared
World ==
  [rev |-> rev, wkey |-> wkey, storage |-> storage, cache |-> cache, comp |-> comp,
   awaiting |-> awaiting, micro |-> micro, lo |-> lo,
   net |-> {}, cancelled |-> {}, nav |-> <<>>, rinv |-> 0, calls |-> <<>>, branch |-> "render",
   seen |-> <<>>, error |-> errorField, toasts |-> <<>>]

Commit(w) ==
  /\ storage' = w.storage
  /\ cache' = w.cache
  /\ comp' = w.comp
  /\ awaiting' = w.awaiting
  /\ micro' = w.micro
  /\ lo' = w.lo
  /\ net' = w.net
  /\ cancelled' = w.cancelled
  /\ nav' = w.nav
  /\ rinv' = w.rinv
  /\ calls' = w.calls
  /\ seen' = w.seen
  /\ errorField' = w.error
  /\ toasts' = w.toasts
  /\ UNCHANGED <<ret, icalls, ireq, icache>>
  /\ ended' = IF w.calls # <<>> THEN ended \cup ({ReqToken(rev, storage)} \ {NoToken})
              ELSE ended

\* 401 reactions that have started and not yet called logout
ChainsInFlight ==
  Len(awaiting[UsersCurrent]) + Len(awaiting[Items]) + Len(awaiting[UsersPage])
    + Len(micro)

InitOf(comps, sessions, nfaults) ==
  /\ scn = [comps |-> comps, sessions |-> sessions]
  /\ faults = nfaults
  /\ rev \in Revisions
  /\ wkey \in {f \in [Comps -> WrapperKeys] : f["c1"] = Items}
  /\ storage = [k \in StorageKeys |-> NoToken]
  /\ issued = 0
  /\ valid = {}
  /\ cache = [k \in Keys |-> NoEntry]
  /\ comp = [c \in Comps |-> [mounted |-> FALSE, enabled |-> FALSE]]
  /\ awaiting = [k \in Keys |-> <<>>]
  /\ micro = <<>>
  /\ lo = [c \in Comps |-> 0]
  /\ op = "init"
  /\ net = {}
  /\ cancelled = {}
  /\ nav = <<>>
  /\ rinv = 0
  /\ calls = <<>>
  /\ ended = {}
  /\ seen = <<>>
  /\ errorField = Null
  /\ toasts = <<>>
  /\ ret = NoCall
  /\ icalls = {}
  /\ ireq = {}
  /\ icache = {}

\* one component on the page, one login, the server may fail once
Init == InitOf({"c1"}, 1, 1)

\* the same with a server that keeps failing
InitRetry == InitOf({"c1"}, 1, MaxFaults)

\* the same with later logins
InitSessions == InitOf({"c1"}, MaxSession, 0)

\* two components on the page, on one key or on two
InitPage == InitOf(Comps, 1, 0)

\* ----------------------------------------------------------------- actions
\* a (re-)render of component c: useAuth, useQuery, then the effects
Render(c) ==
  /\ micro = <<>>
  /\ c \in scn.comps
  /\ \E w \in {RenderComp(World, c)} :
       /\ w.branch = "react401" => ChainsInFlight < MaxChains
       /\ Commit(w)
       /\ op' = w.branch
  /\ UNCHANGED <<rev, wkey, issued, valid, scn, faults>>

\* the next promise continuation: remove() of a reaction, or its logout
MicroStep ==
  /\ micro # <<>>
  /\ LET task == Head(micro)
         w0 == [World EXCEPT !.micro = Tail(micro)]
     IN IF task.t = "remove"
        THEN LET w1 == RemoveOne(w0, task.k) IN
             /\ Commit([w1 EXCEPT !.micro = Append(@, LogoutTask(task.k, task.c))])
             /\ op' = "remove"
        ELSE LET w1 == logout(w0, "reaction") IN
             /\ Commit([w1 EXCEPT !.lo[task.c] = @ + 1])
             /\ op' = "logout"
  /\ UNCHANGED <<rev, wkey, issued, valid, scn, faults>>

\* the user calls the logout() a mounted component got from useAuth
UserLogout(c) ==
  /\ micro = <<>>
  /\ comp[c].mounted
  /\ Commit(logout(World, "user"))
  /\ op' = "logout"
  /\ UNCHANGED <<rev, wkey, issued, valid, scn, faults>>

\* loginMutation succeeds with the token the server issues
LoginSuccess ==
  /\ micro = <<>>
  /\ issued < scn.sessions
  /\ LET t == issued + 1
         w == loginSuccess(World, t)
     IN /\ issued' = t
        /\ valid' = valid \cup {t}
        /\ Commit([w EXCEPT !.lo = [c \in Comps |-> 0]])
  /\ op' = "loginSuccess"
  /\ UNCHANGED <<rev, wkey, scn, faults>>

\* loginMutation fails with err: onError stores the message
LoginFailure(err) ==
  /\ micro = <<>>
  /\ Commit(loginOnError(World, err))
  /\ op' = "loginFailure"
  /\ UNCHANGED <<rev, wkey, issued, valid, scn, faults>>

\* resetError: () => setError(null)
ResetError ==
  /\ micro = <<>>
  /\ errorField # Null
  /\ Commit(setError(World, Null))
  /\ op' = "resetError"
  /\ UNCHANGED <<rev, wkey, issued, valid, scn, faults>>

\* signUpMutation succeeds: onSuccess, then onSettled
SignUpSuccess ==
  /\ micro = <<>>
  /\ Commit(signUpOnSettled(signUpOnSuccess(World)))
  /\ op' = "signUpSuccess"
  /\ UNCHANGED <<rev, wkey, issued, valid, scn, faults>>

\* signUpMutation fails with err: onError, then onSettled
SignUpFailure(err) ==
  /\ micro = <<>>
  /\ Commit(signUpOnSettled(signUpOnError(World, err)))
  /\ op' = "signUpFailure"
  /\ UNCHANGED <<rev, wkey, issued, valid, scn, faults>>

\* the caller uses the invalidate() that useCustomQuery returns
Invalidate(c) ==
  /\ micro = <<>>
  /\ comp[c].mounted
  /\ Commit(InvalidateOne(World, wkey[c]))
  /\ op' = "invalidate"
  /\ UNCHANGED <<rev, wkey, issued, valid, scn, faults>>

\* the window regains focus: every active query that is not fetching is refetched
\* (no useQuery of the source turns refetchOnWindowFocus off)
RefetchKey(w, k) ==
  IF w.cache[k].present /\ Active(w, k) /\ ~w.cache[k].fetching
  THEN StartFetch(w, k) ELSE w

Refocus ==
  /\ micro = <<>>
  /\ Commit(RefetchKey(RefetchKey(RefetchKey(World, UsersCurrent), Items), UsersPage))
  /\ op' = "refocus"
  /\ UNCHANGED <<rev, wkey, issued, valid, scn, faults>>

\* the server stops accepting token t
ExpireToken(t) ==
  /\ micro = <<>>
  /\ t \in valid
  /\ valid' = valid \ {t}
  /\ Commit(World)
  /\ op' = "expire"
  /\ UNCHANGED <<rev, wkey, issued, scn, faults>>

\* the request of k is answered 200: the value is cached, tagged with the token that
\* fetched it
FetchSuccess(k) ==
  /\ micro = <<>>
  /\ cache[k].fetching
  /\ cache[k].tok \in valid
  /\ LET e == cache[k]
         w == [World EXCEPT !.cache[k] = [e EXCEPT !.data = e.tok, !.err = 0,
                                                   !.inv = FALSE, !.fetching = FALSE,
                                                   !.fails = 0, !.tok = NoToken]]
     IN Commit(Settle(w, k))
  /\ op' = "fetchSuccess"
  /\ UNCHANGED <<rev, wkey, issued, valid, scn, faults>>

\* the request of k fails with status st: the retry option decides whether the
\* request is sent again or the error becomes the query's error
FetchFail(k, st) ==
  /\ micro = <<>>
  /\ cache[k].fetching
  /\ st = UNAUTHORIZED => cache[k].tok \notin valid
  /\ st = SERVER_ERROR => faults > 0
  /\ faults' = IF st = SERVER_ERROR THEN faults - 1 ELSE faults
  /\ LET e == cache[k] IN
     IF ShouldRetry(rev, k, e.fails, st)
     THEN /\ Commit([World EXCEPT !.cache[k] = [e EXCEPT !.fails = e.fails + 1,
                                                        !.tok = ReqToken(rev, storage)],
                                  !.net = {k}])
          /\ op' = IF st = UNAUTHORIZED THEN "retry401" ELSE "retry500"
     ELSE /\ Commit(Settle([World EXCEPT !.cache[k] =
                              [e EXCEPT !.err = st, !.fetching = FALSE,
                                        !.fails = e.fails + 1, !.tok = NoToken]], k))
          /\ op' = IF st = UNAUTHORIZED THEN "error401" ELSE "error500"
  /\ UNCHANGED <<rev, wkey, issued, valid, scn>>

\* the steps of the query cache, the session and the registration form
NextCore ==
  \/ \E c \in Comps : Render(c)
  \/ MicroStep
  \/ \E c \in Comps : UserLogout(c)
  \/ LoginSuccess
  \/ SignUpSuccess
  \/ \E err \in Errors : SignUpFailure(err)
  \/ \E c \in Comps : Invalidate(c)
  \/ Refocus
  \/ \E t \in 1..MaxSession : ExpireToken(t)
  \/ \E k \in Keys : FetchSuccess(k)
  \/ \E k \in Keys, st \in {UNAUTHORIZED, SERVER_ERROR} : FetchFail(k, st)

\* the same with the failures of the login form
Next ==
  \/ NextCore
  \/ \E err \in Errors : LoginFailure(err)
  \/ ResetError

Spec == Init /\ [][Next]_vars

\* the scenarios below leave the login form's failures out: the error field stays null
SpecRetry == InitRetry /\ [][NextCore]_vars
SpecSessions == InitSessions /\ [][NextCore]_vars
SpecPage == InitPage /\ [][NextCore]_vars

\* a session that nothing ends: the user does not log out, the server keeps accepting
\* the token and answers every read; the router's navigation makes the page render
\* and every request is answered in the end
InitLogin == InitOf({"c1"}, 1, 0)

NextLogin ==
  \/ Render("c1")
  \/ LoginSuccess
  \/ \E err \in Errors : LoginFailure(err)
  \/ ResetError
  \/ SignUpSuccess
  \/ \E err \in Errors : SignUpFailure(err)
  \/ Invalidate("c1")
  \/ Refocus
  \/ \E k \in Keys : FetchSuccess(k)

SpecLogin ==
  /\ InitLogin
  /\ [][NextLogin]_vars
  /\ WF_vars(Render("c1"))
  /\ \A k \in Keys : WF_vars(FetchSuccess(k))

\* ------------------------------------------------------ the session store
\* the functions of the source that read or write the session token, called in any
\* order on one localStorage: those of utils/auth.ts, and the localStorage calls
\* of the earlier useAuth, whose isLoggedIn is the one useCustomQuery imports
\* (import useAuth, { isLoggedIn } from "./useAuth.ts")
\* what a call of a session-store function leaves alone
StoreFrame ==
  UNCHANGED <<rev, wkey, issued, valid, cache, comp, awaiting, micro, lo, net,
              cancelled, nav, rinv, calls, scn, faults, ended, seen, errorField, toasts,
              icalls, ireq, icache>>

CallUpdateLocalAuthState(newState) ==
  /\ storage' = updateLocalAuthState(storage, newState)
  /\ ret' = Call(newState, NoToken, FALSE)
  /\ op' = "updateLocalAuthState"
  /\ StoreFrame

CallGetLocalAuthState ==
  /\ ret' = Call(NoToken, getLocalAuthState(storage), FALSE)
  /\ op' = "getLocalAuthState"
  /\ UNCHANGED storage
  /\ StoreFrame

CallGetAuthToken ==
  /\ ret' = Call(NoToken, getAuthToken(storage), FALSE)
  /\ op' = "getAuthToken"
  /\ UNCHANGED storage
  /\ StoreFrame

CallIsLoggedIn ==
  /\ ret' = Call(NoToken, NoToken, isLoggedInUtils(storage))
  /\ op' = "isLoggedIn"
  /\ UNCHANGED storage
  /\ StoreFrame

CallSetAccessToken(t) ==
  /\ storage' = setAccessToken(storage, t)
  /\ ret' = Call(t, NoToken, FALSE)
  /\ op' = "setAccessToken"
  /\ StoreFrame

CallRemoveAccessToken ==
  /\ storage' = removeAccessToken(storage)
  /\ ret' = NoCall
  /\ op' = "removeAccessToken"
  /\ StoreFrame

CallIsLoggedInLegacy ==
  /\ ret' = Call(NoToken, NoToken, isLoggedInLegacy(storage))
  /\ op' = "isLoggedInLegacy"
  /\ UNCHANGED storage
  /\ StoreFrame

NextStore ==
  \/ \E newState \in Tokens \cup {NoToken} : CallUpdateLocalAuthState(newState)
  \/ CallGetLocalAuthState
  \/ CallGetAuthToken
  \/ CallIsLoggedIn
  \/ \E t \in Tokens : CallSetAccessToken(t)
  \/ CallRemoveAccessToken
  \/ CallIsLoggedInLegacy

SpecStore == Init /\ [][NextStore]_vars

\* --------------------------------------------------------------- the items
\* what a step of the items hook leaves alone
ItemsFrame ==
  UNCHANGED <<rev, wkey, storage, issued, valid, cache, comp, awaiting, micro, lo,
              net, cancelled, nav, rinv, calls, scn, faults, ended, seen, errorField, toasts, ret>>

\* a component mounts useItems with queryOptions (or its options change): the
\* query of the key is observed and, its data being stale, read
UseItems(queryOptions) ==
  /\ LET call == fetchItems(queryOptions) IN
       /\ Cardinality(icalls \cup {call}) <= MaxCalls
       /\ icalls' = icalls \cup {call}
       /\ ireq' = SendRead(ireq, call)
  /\ op' = "useItems"
  /\ UNCHANGED icache
  /\ ItemsFrame

\* the component calls the prefetchItems that useItems returned
PrefetchItems(page, limit) ==
  /\ LET call == prefetchItems(page, limit) IN
       /\ Cardinality(icalls \cup {call}) <= MaxCalls
       /\ icalls' = icalls \cup {call}
       /\ ireq' = SendRead(ireq, call)
  /\ op' = "prefetchItems"
  /\ UNCHANGED icache
  /\ ItemsFrame

\* the read r is answered: its value is cached under its key, in place of the
\* value that was there
ItemsReply(r) ==
  /\ r \in ireq
  /\ ireq' = ireq \ {r}
  /\ icache' = {e \in icache : e.key # r.key} \cup {[key |-> r.key, data |-> r.sent]}
  /\ op' = "itemsReply"
  /\ UNCHANGED icalls
  /\ ItemsFrame

NextItems ==
  \/ \E queryOptions \in QueryOptions : UseItems(queryOptions)
  \/ \E page \in 1..(MaxPage + 1), limit \in Limits : PrefetchItems(page, limit)
  \/ \E r \in ireq : ItemsReply(r)

SpecItems == Init /\ [][NextItems]_vars

TypeOK ==
  /\ rev \in Revisions
  /\ storage \in [StorageKeys -> Tokens \cup {NoToken}]
  /\ \A k \in Keys : cache[k].fails \in 0..(RetryLimit + 2)
  /\ ChainsInFlight <= MaxChains
  /\ \A c \in Comps : lo[c] <= MaxChains
  /\ ended \subseteq 1..MaxSession

\* ------------------------------------------------------------------ claims
LoggedIn == isLoggedIn(rev, storage)

\* no 401 reaction is under way: none awaits its refetch, no continuation is queued
ReactionsDone == ChainsInFlight = 0

\* the 401 reactions of this session have called logout() n times
ReactionLogouts == lo["c1"] + lo["c2"]

\* C1: a single authenticated query that observes a 401 while a token is stored
\* makes its 401 reaction call logout() exactly once, however often the component
\* re-renders, and once the reaction has finished the entry of its key is absent
\* and isLoggedIn() is false.
C1_OneLogoutPerObservation ==
  /\ lo["c1"] <= 1
  /\ (op = "logout" /\ calls = <<"reaction">> /\ ReactionsDone)
       => (~cache[wkey["c1"]].present /\ ~LoggedIn)

\* C2: when several authenticated reads get a 401 for the same expired token, the
\* 401 reactions together call logout() at most once, and a remove() of a reaction
\* leaves the entry absent.  (One read reacting twice is the case of C1; here every
\* read reacts at most once.)
C2_AtMostOneCascade ==
  /\ (lo["c1"] <= 1 /\ lo["c2"] <= 1) => ReactionLogouts <= 1
  /\ (op = "remove") => ~cache[micro[Len(micro)].k].present

\* C3: a render of useCustomQuery that observes a 401 while no token is stored calls
\* no logout() and leaves the session store as it is, and removes the cache entry of
\* the query's key.
C3_CleanupOnly ==
  [][\A c \in Comps :
       (Render(c) /\ ~LoggedIn /\ cache[wkey[c]].err = UNAUTHORIZED)
         => /\ op' = "cleanup401"
            /\ ~cache'[wkey[c]].present
            /\ storage' = storage
            /\ calls' = <<>>]_vars

\* a 401 was observed with no token stored, and the entry is gone
C3_Witness ==
  /\ op = "cleanup401"
  /\ calls = <<>>
  /\ ~LoggedIn
  /\ ~cache[wkey["c1"]].present

\* C4: the stored token goes from absent to present only by a successful login, and
\* from present to absent only by a call of logout() (by the user or by a 401
\* reaction); no other operation changes the stored token.
C4_TokenTransitions ==
  [][\A key \in StorageKeys :
       storage'[key] # storage[key]
         => /\ storage'[key] # NoToken => op' = "loginSuccess"
            /\ storage'[key] = NoToken => calls' # <<>>]_vars

\* a login stored the token and the logout() of a 401 reaction cleared it
C4_Witness ==
  /\ issued = 1
  /\ op = "logout"
  /\ calls = <<"reaction">>
  /\ ~LoggedIn

\* C5: a read made through useCustomQuery sends a request only while a token is
\* stored: a query created with no token stored sends none, and after the token
\* has been cleared no fetch or refetch is started until a token is stored again.
\* (tok is the token that was stored when the request in flight was sent.)
C5_FetchOnlyWithToken ==
  \A k \in WrapperKeys : cache[k].fetching => cache[k].tok # NoToken

\* the reads whose useQuery is given the retry predicate: every read through
\* useCustomQuery, and the current-user read of useCurrentUser.ts:80-108
PredicateKeys == WrapperKeys \cup (IF rev = "legacy" THEN {UsersCurrent} ELSE {})

\* C6: a failure with status 401 is never retried, and a failure with any other
\* status is retried at most 3 more times: at most 3 retries are under way
\* (fails counts the failed attempts of the current fetch) and the error is
\* terminal after at most 4 attempts.
C6_RetryBudget ==
  \A k \in PredicateKeys :
    /\ ~(op = "retry401" /\ k \in net)
    /\ cache[k].fetching => cache[k].fails <= RetryLimit
    /\ cache[k].fails <= RetryLimit + 1

\* C7: after logout() is called while a token is stored, the token is absent, the
\* cache entry of the current-user key is absent (removed, not only stale), and
\* the navigation to the login entry point has been issued exactly once
\* (router.invalidate() of the earlier useAuth, which re-runs the route guards,
\* counts as that navigation).
C7_LogoutWhileAuthenticated ==
  [][(calls' # <<>> /\ LoggedIn)
       => /\ ~isLoggedIn(rev', storage')
          /\ ~cache'[UsersCurrent].present
          /\ \/ nav' = <<"/login">>
             \/ rev = "legacy" /\ rinv' = 1]_vars

\* C8: logout() called when no token is stored leaves the token absent, leaves the
\* current-user entry as one call leaves it (removed, or kept and marked stale),
\* and sends no network request: the invalidation inside logout starts no refetch.
C8_LogoutIdempotent ==
  [][(calls' # <<>> /\ ~LoggedIn)
       => /\ ~isLoggedIn(rev', storage')
          /\ net' = {}
          /\ cache'[UsersCurrent].present
               => cache'[UsersCurrent] = [cache[UsersCurrent] EXCEPT !.inv = TRUE]]_vars

RenderOps == {"render", "react401", "cleanup401"}

\* C9: cached data of a session that a logout() has ended is never returned in a
\* later session: when a component renders with a token stored, no query it
\* observes returns a value that was fetched with the token of an ended session
\* (data is the token the cached value was fetched with).
C9_NoDeadSessionData ==
  \A c \in Comps : \A k \in Observed(wkey, c) :
    (op \in RenderOps /\ c \in scn.comps /\ comp[c].mounted /\ LoggedIn
       /\ cache[k].data # 0)
      => cache[k].data \notin ended

\* C10: the current-user read follows the wrapper's policy: a render enables it
\* exactly when a token is stored, a 401 on it is never retried, and a render
\* of a subscribed component that finds its 401 while a token is stored calls
\* logout() in that render, which clears the token and removes its entry.
C10_CurrentUserPolicy ==
  [][/\ \A c \in Comps : Render(c) => comp'[c].enabled = LoggedIn
     /\ ~(op' = "retry401" /\ UsersCurrent \in net')
     /\ \A c \in Comps :
          (Render(c) /\ comp[c].mounted /\ comp[c].enabled /\ LoggedIn
             /\ cache[UsersCurrent].err = UNAUTHORIZED)
            => /\ calls' # <<>>
               /\ ~isLoggedIn(rev', storage')
               /\ ~cache'[UsersCurrent].present]_vars

C12_FailedLogin ==
  [][/\ op' = "loginFailure"
          => /\ storage' = storage /\ nav' = <<>> /\ rinv' = 0
             /\ errorField'.kind = "string" /\ errorField'.text # ""
     /\ op' = "resetError" => errorField' = Null
     /\ (errorField # Null /\ errorField' # errorField)
          => op' \in {"loginFailure", "resetError"}]_vars

\* the value is the raw array of sub-errors
RawArray(value) == value.kind = "array"

\* C13: on every error path of a mutation (login, registration) an array detail is
\* collapsed: neither the error field nor the description of a notification is ever
\* the raw array.
C13_ArrayCollapsed ==
  /\ ~RawArray(errorField)
  /\ \A i \in 1..Len(toasts) : ~RawArray(toasts[i].description)

UsersKeys == {UsersCurrent, UsersPage}

\* the step left every cached entry under ["users"] cached and marked stale
UsersStale ==
  \A k \in UsersKeys : cache[k].present => (cache'[k].present /\ cache'[k].inv)

\* C14: every registration attempt marks every cached entry under "users" (the
\* current user included) stale and leaves the stored token as it is; a success
\* navigates to the login route once and emits one success notification, a failure
\* emits one error notification and does not navigate.
C14_RegistrationInvalidates ==
  [][/\ op' = "signUpSuccess"
          => /\ UsersStale /\ storage' = storage
             /\ nav' = <<"/login">>
             /\ Len(toasts') = 1 /\ toasts'[1].status = "success"
     /\ op' = "signUpFailure"
          => /\ UsersStale /\ storage' = storage
             /\ nav' = <<>> /\ rinv' = 0
             /\ Len(toasts') = 1 /\ toasts'[1].status = "error"]_vars

C14_Witness ==
  /\ op = "signUpFailure" /\ LoggedIn /\ nav = <<>>
  /\ Len(toasts) = 1 /\ toasts[1].status = "error"
  /\ cache[UsersCurrent].present /\ cache[UsersCurrent].inv
  /\ cache[UsersPage].present /\ cache[UsersPage].inv

\* C15: laws of the session store of utils/auth.ts, for every token string (the
\* empty string included): after updateLocalAuthState(t) getLocalAuthState() is t
\* and isLoggedIn() is true, whatever was stored before; after
\* updateLocalAuthState(null) getLocalAuthState() is null and isLoggedIn() is false,
\* and a second one changes nothing; the reading functions return what is stored
\* and leave the store as it is.
C15_StoreLaws ==
  [][/\ (op' = "updateLocalAuthState" /\ ret'.arg # NoToken)
          => /\ getLocalAuthState(storage') = ret'.arg
             /\ isLoggedInUtils(storage')
     /\ (op' = "updateLocalAuthState" /\ ret'.arg = NoToken)
          => /\ getLocalAuthState(storage') = NoToken
             /\ ~isLoggedInUtils(storage')
             /\ storage["authState"] = NoToken => storage' = storage
     /\ op' \in {"getLocalAuthState", "getAuthToken", "isLoggedIn"} => storage' = storage
     /\ op' \in {"getLocalAuthState", "getAuthToken"} => ret'.tok = storage["authState"]
     /\ op' = "isLoggedIn" => ret'.auth = (storage["authState"] # NoToken)]_vars

C15_Witness ==
  op = "isLoggedIn" /\ ret.auth /\ storage["authState"] = EmptyString

\* C16: every function that reads or writes the session token uses one storage
\* key: after a function that stores a token (login) every isLoggedIn of the source
\* returns true, and after a function that removes it (logout) every one returns
\* false.
C16_SingleStorageKey ==
  /\ ((op = "updateLocalAuthState" /\ ret.arg # NoToken) \/ op = "setAccessToken")
       => (isLoggedInUtils(storage) /\ isLoggedInLegacy(storage))
  /\ ((op = "updateLocalAuthState" /\ ret.arg = NoToken) \/ op = "removeAccessToken")
       => (~isLoggedInUtils(storage) /\ ~isLoggedInLegacy(storage))

\* C17: getItemsQueryParams keeps the limit; a given skip (0 included) is the
\* result's skip, also when a page is given; without a skip the result's skip is
\* (page - 1) * limit.
C17_ResolvedParams ==
  \A call \in icalls :
    /\ call.params.limit = call.opts.limit
    /\ call.opts.skip # None => call.params.skip = call.opts.skip
    /\ call.opts.skip = None => call.params.skip = (call.opts.page - 1) * call.opts.limit

C17_Witness ==
  \E call \in icalls :
    call.opts.skip = 0 /\ call.opts.page = MaxPage /\ call.params.skip = 0

SamePair(a, b) == a.params.limit = b.params.limit /\ a.params.skip = b.params.skip

C20_CachedUnderItsParams ==
  \A e \in icache :
    e.data.limit = e.key[2].limit /\ e.data.skip = e.key[2].skip

\* C19: for one query key, the remove() that a 401 reaction runs after its
\* invalidate() leaves the entry absent (no cached value, no request pending),
\* whether or not a refetch of the key was in flight; an absent entry never has a
\* request pending, and only a render that subscribes anew brings an entry back:
\* no reply does.
C19_RemoveAfterInvalidate ==
  /\ [](\A k \in Keys : ~cache[k].present => cache[k] = NoEntry)
  /\ [][/\ (micro # <<>> /\ op' = "remove") => cache'[Head(micro).k] = NoEntry
        /\ \A k \in Keys : (~cache[k].present /\ cache'[k].present) => op' \in RenderOps]_vars

C19_Witness ==
  /\ op = "remove" /\ cancelled # {}
  /\ \A k \in cancelled : cache[k] = NoEntry

====
